---- MODULE Spec2Model ----
(***************************************************************************)
(* Room presence and broadcast coordinator of infinitec-server:            *)
(* the WebSocket frame handlers and the heartbeat sweeper of index.ts, and *)
(* the room leave/delete routes of server/index.ts, over the clients map   *)
(* and the persisted Room / RoomMember tables.                             *)
(*                                                                         *)
(* One action is one run of the event loop: a synchronous handler, or the  *)
(* part of an async function between two awaits.  An action that resumes   *)
(* from an await performs the awaited store operation and runs the code    *)
(* after it up to the next await.                                          *)
(***************************************************************************)
EXTENDS Integers, Sequences, FiniteSets, TLC

VARIABLES
    clients,     \* the clients Map: clientId -> ClientConnection
    probes,      \* per clientId in the Map: the heartbeat probes sent to it since the
                 \* last join or heartbeat accepted for it (history, not program state)
    conn,        \* per transport: its state, the closure variables userId and roomId,
                 \* and whether a join was accepted on it (history)
    rooms,       \* table Room: room id -> [ownerId]
    roomMember,  \* table RoomMember: set of <<roomId, userId>>
    sw,          \* the running heartbeatCheckInterval callbacks: their position and
                 \* locals, and as history, not program state: the memberships the
                 \* store held when the cycle listed the rooms (listed) and the rooms
                 \* whose member loop the cycle ran to its end (done)
    req,         \* the HTTP request in flight
    now,         \* Date.now()
    maxFailed,   \* MAX_FAILED_HEARTBEATS as the process imported it at startup
    sent,        \* the ws.send calls made by the last run of the event loop
    last         \* the handler that ran last

vars == <<clients, probes, conn, rooms, roomMember, sw, req, now, maxFailed, sent, last>>

----------------------------------------------------------------------------
(* Constants and identifiers *)

\* the value ./constants gives MAX_FAILED_HEARTBEATS (the largest one, where a
\* specification lets the configuration vary)
MAX_FAILED_HEARTBEATS == 2

\* largest value Date.now() takes in the model
MaxNow == 1

\* identifiers are strings, modelled as sequences of characters;
\* the empty string stands for every falsy field value (undefined, null, "")
Null == <<>>
U1 == <<"a">>
U2 == <<"b">>
U3 == <<"c">>
R1 == <<"r">>
R2 == <<"s">>

Truthy(x) == x # Null

\* `${roomId}_${userId}`
ClientId(roomId, userId) == roomId \o <<"_">> \o userId

Put(f, k, v) == [x \in (DOMAIN f) \cup {k} |-> IF x = k THEN v ELSE f[x]]
Del(f, k) == [x \in (DOMAIN f) \ {k} |-> f[x]]

\* interface ClientConnection
ClientConnection(ws, userId, roomId, failed, t) ==
    [ws |-> ws, userId |-> userId, roomId |-> roomId,
     failedHeartbeats |-> failed, lastHeartbeat |-> t]

\* one ws.send call: the transport, the registry key it was reached through
\* (Null for a reply on the handler's own transport), the frame, and whether
\* the call returned (ok) or threw
Frame(to, key, type, roomId, userId, reason, data, ok) ==
    [to |-> to, key |-> key, type |-> type, roomId |-> roomId, userId |-> userId,
     reason |-> reason, data |-> data, ok |-> ok]

\* the handler that ran: its name, its transport or task, the user and room
\* it handled, and the failedHeartbeats it read (-1 when it read none)
EventN(op, c, userId, roomId, n) ==
    [op |-> op, c |-> c, userId |-> userId, roomId |-> roomId, n |-> n]

Event(op, c, userId, roomId) == EventN(op, c, userId, roomId, -1)

Restrict(f, D) == [k \in D |-> f[k]]

NoRoom == [id |-> Null, ownerId |-> Null]

SweeperIdle ==
    [pc |-> "idle", todoRooms |-> {}, room |-> NoRoom, todo |-> {}, member |-> Null,
     listed |-> {}, done |-> {}]

ReqIdle == [pc |-> "idle", kind |-> "", userId |-> Null, room |-> NoRoom]

\* pcs at which a sweeper is inside synchronous code: nothing else runs
SyncPcs == {"memberLoop"}

Locked == \E s \in DOMAIN sw : sw[s].pc \in SyncPcs

\* ws.send on a transport that is not OPEN may throw
MayThrow(c) == conn[c].status # "open"

----------------------------------------------------------------------------
(* Transports *)

\* wss.on('connection'): userId and roomId start as null
OnConnection(c) ==
    /\ ~Locked
    /\ conn[c].status = "new"
    /\ conn' = [conn EXCEPT ![c] = [status |-> "open", userId |-> Null, roomId |-> Null, joined |-> FALSE]]
    /\ sent' = {}
    /\ last' = Event("connection", c, Null, Null)
    /\ UNCHANGED <<clients, probes, rooms, roomMember, sw, req, now, maxFailed>>

\* the socket leaves the OPEN state; its 'close' event is still to be dispatched
TransportDown(c) ==
    /\ ~Locked
    /\ conn[c].status = "open"
    /\ conn' = [conn EXCEPT ![c].status = "closing"]
    /\ sent' = {}
    /\ last' = Event("down", c, Null, Null)
    /\ UNCHANGED <<clients, probes, rooms, roomMember, sw, req, now, maxFailed>>

\* the clients.delete of ws.on('close')
CloseRemove(cl, c, userId, roomId) ==
    IF Truthy(userId) /\ Truthy(roomId) THEN Del(cl, ClientId(roomId, userId)) ELSE cl

\* ws.on('close')
OnClose(c) ==
    /\ ~Locked
    /\ conn[c].status \in {"open", "closing"}
    /\ clients' = CloseRemove(clients, c, conn[c].userId, conn[c].roomId)
    /\ probes' = Restrict(probes, DOMAIN clients')
    /\ conn' = [conn EXCEPT ![c].status = "closed"]
    /\ sent' = {}
    /\ last' = Event("close", c, conn[c].userId, conn[c].roomId)
    /\ UNCHANGED <<rooms, roomMember, sw, req, now, maxFailed>>

----------------------------------------------------------------------------
(* ws.on('message') *)

\* the closure variables after a join frame
JoinBind(old, userId, roomId) == [old EXCEPT !.userId = userId, !.roomId = roomId]

\* a join that would carry the stored counter over
JoinEntryKeepCount(cl, c, userId, roomId, t) ==
    LET k == ClientId(roomId, userId)
    IN  ClientConnection(c, userId, roomId,
                         IF k \in DOMAIN cl THEN cl[k].failedHeartbeats ELSE 0, t)

\* the clients.set of the join branch
JoinEntry(cl, c, userId, roomId, t) == ClientConnection(c, userId, roomId, 0, t)

\* data.type === 'join'
OnJoin(c, userId, roomId) ==
    /\ ~Locked
    /\ conn[c].status = "open"
    /\ conn' = [conn EXCEPT ![c] = [JoinBind(conn[c], userId, roomId) EXCEPT
                                      !.joined = @ \/ (Truthy(userId) /\ Truthy(roomId))]]
    /\ IF Truthy(userId) /\ Truthy(roomId)
       THEN /\ clients' = Put(clients, ClientId(roomId, userId),
                              JoinEntry(clients, c, userId, roomId, now))
            /\ probes' = Put(probes, ClientId(roomId, userId), 0)
            /\ sent' = {Frame(c, Null, "joined", roomId, userId, "", "", TRUE)}
            /\ last' = EventN("join", c, userId, roomId,
                              IF ClientId(roomId, userId) \in DOMAIN clients
                              THEN clients[ClientId(roomId, userId)].failedHeartbeats ELSE -1)
       ELSE /\ clients' = clients
            /\ probes' = probes
            /\ sent' = {}
            /\ last' = Event("join", c, userId, roomId)
    /\ UNCHANGED <<rooms, roomMember, sw, req, now, maxFailed>>

\* an acknowledgement that would leave lastHeartbeat alone
AckEntryKeepTime(e, t) == [e EXCEPT !.failedHeartbeats = 0]

\* the update of the heartbeat branch
AckEntry(e, t) == [e EXCEPT !.failedHeartbeats = 0, !.lastHeartbeat = t]

\* a heartbeat branch that would install an entry when the key has none
OnHeartbeatUpsert(c) ==
    LET userId == conn[c].userId
        roomId == conn[c].roomId
        k == ClientId(roomId, userId)
    IN  /\ ~Locked
        /\ conn[c].status = "open"
        /\ IF Truthy(userId) /\ Truthy(roomId)
           THEN /\ clients' = Put(clients, k, ClientConnection(c, userId, roomId, 0, now))
                /\ probes' = Put(probes, k, 0)
                /\ sent' = {Frame(c, Null, "heartbeat_ack", Null, Null, "", "", TRUE)}
                /\ last' = EventN("heartbeat", c, userId, roomId,
                                  IF k \in DOMAIN clients THEN clients[k].failedHeartbeats
                                  ELSE -1)
           ELSE /\ clients' = clients
                /\ probes' = probes
                /\ sent' = {}
                /\ last' = Event("heartbeat", c, userId, roomId)
        /\ UNCHANGED <<conn, rooms, roomMember, sw, req, now, maxFailed>>

\* data.type === 'heartbeat'
OnHeartbeat(c) ==
    LET userId == conn[c].userId
        roomId == conn[c].roomId
        k == ClientId(roomId, userId)
    IN  /\ ~Locked
        /\ conn[c].status = "open"
        /\ IF Truthy(userId) /\ Truthy(roomId) /\ k \in DOMAIN clients
           THEN /\ clients' = [clients EXCEPT ![k] = AckEntry(clients[k], now)]
                /\ probes' = [probes EXCEPT ![k] = 0]
                /\ sent' = {Frame(c, Null, "heartbeat_ack", Null, Null, "", "", TRUE)}
                /\ last' = EventN("heartbeat", c, userId, roomId, clients[k].failedHeartbeats)
           ELSE /\ clients' = clients
                /\ probes' = probes
                /\ sent' = {}
                /\ last' = Event("heartbeat", c, userId, roomId)
        /\ UNCHANGED <<conn, rooms, roomMember, sw, req, now, maxFailed>>

\* the entries the forEach of the draw_event branch sends to
DrawTargets(cl, userId, roomId) ==
    IF Truthy(roomId)
    THEN {k \in DOMAIN cl : cl[k].roomId = roomId /\ cl[k].userId # userId}
    ELSE {}

DrawFrame(k, data, ok) == Frame(clients[k].ws, k, "draw_event", Null, Null, "", data, ok)

\* data.type === 'draw_event'.  The forEach visits the entries in insertion
\* order, which the model does not track: a send that throws ends the forEach,
\* after any subset of the other targets has been sent to.
OnDrawEvent(c, data) ==
    LET userId == conn[c].userId
        roomId == conn[c].roomId
        T == DrawTargets(clients, userId, roomId)
    IN  /\ ~Locked
        /\ conn[c].status = "open"
        /\ \/ sent' = {DrawFrame(k, data, TRUE) : k \in T}
           \/ \E k \in T :
                /\ MayThrow(clients[k].ws)
                /\ \E before \in SUBSET (T \ {k}) :
                     sent' = {DrawFrame(x, data, TRUE) : x \in before}
                                \cup {DrawFrame(k, data, FALSE)}
        /\ last' = Event("draw_event", c, userId, roomId)
        /\ UNCHANGED <<clients, probes, conn, rooms, roomMember, sw, req, now, maxFailed>>

\* a handler that would drop the binding on a frame it cannot use
OnOtherFrameUnbind(c) ==
    /\ ~Locked
    /\ conn[c].status = "open"
    /\ conn' = [conn EXCEPT ![c].userId = Null, ![c].roomId = Null]
    /\ sent' = {}
    /\ last' = Event("other", c, conn[c].userId, conn[c].roomId)
    /\ UNCHANGED <<clients, probes, rooms, roomMember, sw, req, now, maxFailed>>

\* a frame that JSON.parse rejects, or whose type is none of the three
OnOtherFrame(c) ==
    /\ ~Locked
    /\ conn[c].status = "open"
    /\ sent' = {}
    /\ last' = Event("other", c, conn[c].userId, conn[c].roomId)
    /\ UNCHANGED <<clients, probes, conn, rooms, roomMember, sw, req, now, maxFailed>>

\* Date.now() advances
AdvanceClock ==
    /\ ~Locked
    /\ now < MaxNow
    /\ now' = now + 1
    /\ sent' = {}
    /\ last' = Event("clock", "", Null, Null)
    /\ UNCHANGED <<clients, probes, conn, rooms, roomMember, sw, req, maxFailed>>

----------------------------------------------------------------------------
(* The persisted store *)

\* prisma.room.delete removes the room; the schema cascades to its memberships
CascadeMembers(ms, roomId) == {m \in ms : m[1] # roomId}

\* a delete that would take every membership of the room with it
RoomMemberDeleteAll(ms, roomId, userId) == {m \in ms : m[1] # roomId}

\* prisma.roomMember.delete / deleteMany on the key (roomId, userId)
RoomMemberDelete(ms, roomId, userId) == ms \ {<<roomId, userId>>}

MembersOf(ms, roomId) == {m[2] : m \in {x \in ms : x[1] = roomId}}

RoomRow(id) == [id |-> id, ownerId |-> rooms[id].ownerId]

----------------------------------------------------------------------------
(* heartbeatCheckInterval: the sweeper *)

SetSw(s, pc, todoRooms, room, todo, member) ==
    sw' = [sw EXCEPT ![s] = [pc |-> pc, todoRooms |-> todoRooms, room |-> room,
                             todo |-> todo, member |-> member,
                             listed |-> IF sw[s].pc = "idle" THEN roomMember
                                        ELSE sw[s].listed,
                             done |-> IF sw[s].pc \in {"count", "deleteEmpty"}
                                      THEN sw[s].done \cup {sw[s].room.id}
                                      ELSE sw[s].done]]

SetPc(s, pc) == sw' = [sw EXCEPT ![s].pc = pc]

\* the callback returns, or its catch block has run
EndCycle(s) == sw' = [sw EXCEPT ![s] = SweeperIdle]

\* for (const room of rooms): the next iteration up to its first await, or the
\* end of the loop.  The order of the rows of findMany is the store's choice.
GoNextRoom(s, T) ==
    IF T = {}
    THEN EndCycle(s)
    ELSE \E rm \in T : SetSw(s, "findMembers", T \ {rm}, rm, {}, Null)

\* for (const member of members): the loop goes on with the members left, or
\* ends at the await of roomMember.count
LoopPc(todo) == IF todo = {} THEN "count" ELSE "memberLoop"

\* the notification loop with the reason field left out
NotifyFramesNoReason(roomId, us, reason, F) ==
    {Frame(clients[ClientId(roomId, u)].ws, ClientId(roomId, u), "room_deleted",
           roomId, Null, "", "", ClientId(roomId, u) \notin F)
        : u \in {x \in us : ClientId(roomId, x) \in DOMAIN clients}}

\* a notification loop that a throwing send would end
NotifyFramesAbort(roomId, us, reason, F) ==
    {Frame(clients[ClientId(roomId, u)].ws, ClientId(roomId, u), "room_deleted",
           roomId, Null, reason, "", ClientId(roomId, u) \notin F)
        : u \in {x \in us : /\ ClientId(roomId, x) \in DOMAIN clients
                            /\ (F # {} => ClientId(roomId, x) \in F)}}

\* the frames of a notification loop: one send per member in us that has a
\* registry entry; the sends in F throw
NotifyFrames(roomId, us, reason, F) ==
    {Frame(clients[ClientId(roomId, u)].ws, ClientId(roomId, u), "room_deleted",
           roomId, Null, reason, "", ClientId(roomId, u) \notin F)
        : u \in {x \in us : ClientId(roomId, x) \in DOMAIN clients}}

\* the registry keys a notification loop over us may throw on
Throwers(roomId, us) ==
    {ClientId(roomId, u) : u \in {x \in us : /\ ClientId(roomId, x) \in DOMAIN clients
                                             /\ MayThrow(clients[ClientId(roomId, x)].ws)}}

\* await prisma.room.findMany({ where: { status: 'active' } })
SweepListRooms(s) ==
    /\ ~Locked
    /\ sw[s].pc = "idle"
    /\ GoNextRoom(s, {RoomRow(id) : id \in DOMAIN rooms})
    /\ sent' = {}
    /\ last' = Event("listRooms", s, Null, Null)
    /\ UNCHANGED <<clients, probes, conn, rooms, roomMember, req, now, maxFailed>>

\* await prisma.roomMember.findMany({ where: { roomId: room.id } })
SweepFindMembers(s) ==
    /\ ~Locked
    /\ sw[s].pc = "findMembers"
    /\ SetSw(s, "findRoom", sw[s].todoRooms, sw[s].room,
             MembersOf(roomMember, sw[s].room.id), Null)
    /\ sent' = {}
    /\ last' = Event("findMembers", s, Null, sw[s].room.id)
    /\ UNCHANGED <<clients, probes, conn, rooms, roomMember, req, now, maxFailed>>

\* the registry after the loop that follows !roomExists
VanishedClients(cl, roomId, us) ==
    [k \in (DOMAIN cl) \ {ClientId(roomId, u) : u \in us} |-> cl[k]]

\* await prisma.room.findUnique(...); if (!roomExists) { notify; continue }
SweepFindRoom(s) ==
    LET room == sw[s].room
    IN  /\ ~Locked
        /\ sw[s].pc = "findRoom"
        /\ IF room.id \in DOMAIN rooms
           THEN /\ SetPc(s, LoopPc(sw[s].todo))
                /\ sent' = {}
                /\ clients' = clients
                /\ probes' = probes
                /\ last' = Event("findRoom", s, Null, room.id)
           ELSE /\ \E F \in SUBSET Throwers(room.id, sw[s].todo) :
                     sent' = NotifyFrames(room.id, sw[s].todo, "", F)
                /\ clients' = VanishedClients(clients, room.id, sw[s].todo)
                /\ probes' = Restrict(probes, DOMAIN clients')
                /\ GoNextRoom(s, sw[s].todoRooms)
                /\ last' = Event("roomVanished", s, Null, room.id)
        /\ UNCHANGED <<conn, rooms, roomMember, req, now, maxFailed>>

\* a probe that would count only the sends that went through
ProbeEntryOnSuccess(e, ok) ==
    IF ok THEN [e EXCEPT !.failedHeartbeats = e.failedHeartbeats + 1] ELSE e

\* client.failedHeartbeats++
ProbeEntry(e, ok) == [e EXCEPT !.failedHeartbeats = e.failedHeartbeats + 1]

\* a threshold that would be met one probe early
ThresholdReachedEarly(cl, k) ==
    k \in DOMAIN cl /\ cl[k].failedHeartbeats >= maxFailed - 1

\* updatedClient && updatedClient.failedHeartbeats >= MAX_FAILED_HEARTBEATS
ThresholdReached(cl, k) ==
    k \in DOMAIN cl /\ cl[k].failedHeartbeats >= maxFailed

\* const updatedClient = clients.get(clientId) and the branch on it, up to the
\* next await; cl is the registry at that moment
AfterMember(s, cl, m, todo) ==
    IF ThresholdReached(cl, ClientId(sw[s].room.id, m))
    THEN SetSw(s, IF m = sw[s].room.ownerId THEN "timeoutOthers" ELSE "timeoutMember",
               sw[s].todoRooms, sw[s].room, todo, m)
    ELSE SetSw(s, LoopPc(todo), sw[s].todoRooms, sw[s].room, todo, Null)

\* one iteration of for (const member of members) up to its first await
SweepMember(s) ==
    LET room == sw[s].room
    IN  /\ sw[s].pc = "memberLoop"
        /\ \E m \in sw[s].todo :
             LET k == ClientId(room.id, m)
                 todo == sw[s].todo \ {m}
             IN  IF k \in DOMAIN clients
                 THEN \E ok \in {TRUE} \cup (IF MayThrow(clients[k].ws) THEN {FALSE} ELSE {}) :
                        /\ clients' = [clients EXCEPT ![k] = ProbeEntry(clients[k], ok)]
                        /\ probes' = [probes EXCEPT ![k] = @ + 1]
                        /\ sent' = sent \cup
                             {Frame(clients[k].ws, k, "heartbeat", Null, Null, "", "", ok)}
                        /\ AfterMember(s, clients', m, todo)
                        /\ last' = EventN("probe", s, m, room.id, clients[k].failedHeartbeats)
                 ELSE /\ clients' = clients
                      /\ probes' = probes
                      /\ sent' = sent
                      /\ SetSw(s, IF m = room.ownerId THEN "absentOthers" ELSE "absentExisting",
                               sw[s].todoRooms, room, todo, m)
                      /\ last' = Event("absent", s, m, room.id)
        /\ UNCHANGED <<conn, rooms, roomMember, req, now, maxFailed>>

\* the members the owner branches notify:
\* prisma.roomMember.findMany({ where: { roomId, userId: { not: member.userId } } })
OtherMembers(ms, roomId, userId) == MembersOf(ms, roomId) \ {userId}

\* owner absent: await findMany(otherMembers), then the notification loop
SweepAbsentOthers(s) ==
    LET room == sw[s].room
        others == OtherMembers(roomMember, room.id, sw[s].member)
    IN  /\ ~Locked
        /\ sw[s].pc = "absentOthers"
        /\ \E F \in SUBSET Throwers(room.id, others) :
             sent' = NotifyFrames(room.id, others, "owner_disconnected", F)
        /\ SetPc(s, "absentDelete")
        /\ last' = Event("absentOthers", s, sw[s].member, room.id)
        /\ UNCHANGED <<clients, probes, conn, rooms, roomMember, req, now, maxFailed>>

\* owner absent: await prisma.room.delete(...); return
SweepAbsentDelete(s) ==
    LET room == sw[s].room
    IN  /\ ~Locked
        /\ sw[s].pc = "absentDelete"
        /\ IF room.id \in DOMAIN rooms
           THEN /\ rooms' = Del(rooms, room.id)
                /\ roomMember' = CascadeMembers(roomMember, room.id)
                /\ last' = Event("absentDelete", s, sw[s].member, room.id)
           ELSE /\ UNCHANGED <<rooms, roomMember>>
                /\ last' = Event("absentDeleteThrew", s, sw[s].member, room.id)
        /\ EndCycle(s)
        /\ sent' = {}
        /\ UNCHANGED <<clients, probes, conn, req, now, maxFailed>>

\* non-owner absent: await prisma.roomMember.findUnique(...)
SweepAbsentExisting(s) ==
    LET room == sw[s].room
        m == sw[s].member
    IN  /\ ~Locked
        /\ sw[s].pc = "absentExisting"
        /\ IF <<room.id, m>> \in roomMember
           THEN SetPc(s, "absentMember")
           ELSE AfterMember(s, clients, m, sw[s].todo)
        /\ sent' = {}
        /\ last' = Event("absentExisting", s, m, room.id)
        /\ UNCHANGED <<clients, probes, conn, rooms, roomMember, req, now, maxFailed>>

\* non-owner absent: await prisma.roomMember.delete(...)
SweepAbsentMember(s) ==
    LET room == sw[s].room
        m == sw[s].member
    IN  /\ ~Locked
        /\ sw[s].pc = "absentMember"
        /\ IF <<room.id, m>> \in roomMember
           THEN /\ roomMember' = RoomMemberDelete(roomMember, room.id, m)
                /\ AfterMember(s, clients, m, sw[s].todo)
                /\ last' = Event("absentMember", s, m, room.id)
           ELSE /\ roomMember' = roomMember
                /\ EndCycle(s)
                /\ last' = Event("absentMemberThrew", s, m, room.id)
        /\ sent' = {}
        /\ UNCHANGED <<clients, probes, conn, rooms, req, now, maxFailed>>

\* owner at the threshold: await findMany(otherMembers), then the notification loop
SweepTimeoutOthers(s) ==
    LET room == sw[s].room
        others == OtherMembers(roomMember, room.id, sw[s].member)
    IN  /\ ~Locked
        /\ sw[s].pc = "timeoutOthers"
        /\ \E F \in SUBSET Throwers(room.id, others) :
             sent' = NotifyFrames(room.id, others, "owner_timeout", F)
        /\ SetPc(s, "timeoutDelete")
        /\ last' = Event("timeoutOthers", s, sw[s].member, room.id)
        /\ UNCHANGED <<clients, probes, conn, rooms, roomMember, req, now, maxFailed>>

\* owner at the threshold: await prisma.room.delete(...); clients.delete(clientId); return
SweepTimeoutDelete(s) ==
    LET room == sw[s].room
    IN  /\ ~Locked
        /\ sw[s].pc = "timeoutDelete"
        /\ IF room.id \in DOMAIN rooms
           THEN /\ rooms' = Del(rooms, room.id)
                /\ roomMember' = CascadeMembers(roomMember, room.id)
                /\ clients' = Del(clients, ClientId(room.id, sw[s].member))
                /\ probes' = Restrict(probes, DOMAIN clients')
                /\ last' = Event("timeoutDelete", s, sw[s].member, room.id)
           ELSE /\ UNCHANGED <<rooms, roomMember, clients, probes>>
                /\ last' = Event("timeoutDeleteThrew", s, sw[s].member, room.id)
        /\ EndCycle(s)
        /\ sent' = {}
        /\ UNCHANGED <<conn, req, now, maxFailed>>

\* an eviction that a heartbeat handled during the await would call off
SweepTimeoutMemberRecheck(s) ==
    LET room == sw[s].room
        m == sw[s].member
    IN  /\ ~Locked
        /\ sw[s].pc = "timeoutMember"
        /\ IF ThresholdReached(clients, ClientId(room.id, m)) /\ <<room.id, m>> \in roomMember
           THEN /\ roomMember' = RoomMemberDelete(roomMember, room.id, m)
                /\ clients' = Del(clients, ClientId(room.id, m))
                /\ probes' = Restrict(probes, DOMAIN clients')
           ELSE UNCHANGED <<roomMember, clients, probes>>
        /\ SetSw(s, LoopPc(sw[s].todo), sw[s].todoRooms, room, sw[s].todo, Null)
        /\ last' = Event("timeoutMember", s, m, room.id)
        /\ sent' = {}
        /\ UNCHANGED <<conn, rooms, req, now, maxFailed>>

\* non-owner at the threshold: await prisma.roomMember.delete(...); clients.delete(clientId)
SweepTimeoutMember(s) ==
    LET room == sw[s].room
        m == sw[s].member
    IN  /\ ~Locked
        /\ sw[s].pc = "timeoutMember"
        /\ IF <<room.id, m>> \in roomMember
           THEN /\ roomMember' = RoomMemberDelete(roomMember, room.id, m)
                /\ clients' = Del(clients, ClientId(room.id, m))
                /\ probes' = Restrict(probes, DOMAIN clients')
                /\ SetSw(s, LoopPc(sw[s].todo), sw[s].todoRooms, room, sw[s].todo, Null)
                /\ last' = Event("timeoutMember", s, m, room.id)
           ELSE /\ UNCHANGED <<roomMember, clients, probes>>
                /\ EndCycle(s)
                /\ last' = Event("timeoutMemberThrew", s, m, room.id)
        /\ sent' = {}
        /\ UNCHANGED <<conn, rooms, req, now, maxFailed>>

\* await prisma.roomMember.count(...)
SweepCount(s) ==
    LET room == sw[s].room
    IN  /\ ~Locked
        /\ sw[s].pc = "count"
        /\ IF MembersOf(roomMember, room.id) = {}
           THEN SetPc(s, "deleteEmpty")
           ELSE GoNextRoom(s, sw[s].todoRooms)
        /\ sent' = {}
        /\ last' = Event("count", s, Null, room.id)
        /\ UNCHANGED <<clients, probes, conn, rooms, roomMember, req, now, maxFailed>>

\* a sweeper that would leave a room without members in the store
SweepDeleteEmptySkip(s) ==
    /\ ~Locked
    /\ sw[s].pc = "deleteEmpty"
    /\ GoNextRoom(s, sw[s].todoRooms)
    /\ sent' = {}
    /\ last' = Event("deleteEmpty", s, Null, sw[s].room.id)
    /\ UNCHANGED <<clients, probes, conn, rooms, roomMember, req, now, maxFailed>>

\* remainingMembers === 0: await prisma.room.delete(...)
SweepDeleteEmpty(s) ==
    LET room == sw[s].room
    IN  /\ ~Locked
        /\ sw[s].pc = "deleteEmpty"
        /\ IF room.id \in DOMAIN rooms
           THEN /\ rooms' = Del(rooms, room.id)
                /\ roomMember' = CascadeMembers(roomMember, room.id)
                /\ GoNextRoom(s, sw[s].todoRooms)
                /\ last' = Event("deleteEmpty", s, Null, room.id)
           ELSE /\ UNCHANGED <<rooms, roomMember>>
                /\ EndCycle(s)
                /\ last' = Event("deleteEmptyThrew", s, Null, room.id)
        /\ sent' = {}
        /\ UNCHANGED <<clients, probes, conn, req, now, maxFailed>>

Sweep(s) ==
    \/ SweepListRooms(s)
    \/ SweepFindMembers(s)
    \/ SweepFindRoom(s)
    \/ SweepMember(s)
    \/ SweepAbsentOthers(s)
    \/ SweepAbsentDelete(s)
    \/ SweepAbsentExisting(s)
    \/ SweepAbsentMember(s)
    \/ SweepTimeoutOthers(s)
    \/ SweepTimeoutDelete(s)
    \/ SweepTimeoutMember(s)
    \/ SweepCount(s)
    \/ SweepDeleteEmpty(s)

----------------------------------------------------------------------------
(* POST /api/rooms/leave and POST /api/rooms/delete *)

SetReq(pc, kind, userId, room) ==
    req' = [pc |-> pc, kind |-> kind, userId |-> userId, room |-> room]

\* /api/rooms/leave up to the await that follows prisma.room.findUnique
HttpLeave(userId, roomId) ==
    /\ ~Locked
    /\ req.pc = "idle"
    /\ IF roomId \notin DOMAIN rooms
       THEN /\ req' = ReqIdle
            /\ last' = Event("leave404", "http", userId, roomId)
       ELSE /\ SetReq(IF rooms[roomId].ownerId = userId THEN "dissolveMembers" ELSE "leaveMember",
                      "leave", userId, RoomRow(roomId))
            /\ last' = Event("leave", "http", userId, roomId)
    /\ sent' = {}
    /\ UNCHANGED <<clients, probes, conn, rooms, roomMember, sw, now, maxFailed>>

\* /api/rooms/delete up to the await that follows prisma.room.findUnique
HttpDelete(userId, roomId) ==
    /\ ~Locked
    /\ req.pc = "idle"
    /\ IF roomId \notin DOMAIN rooms
       THEN /\ req' = ReqIdle
            /\ last' = Event("delete404", "http", userId, roomId)
       ELSE IF rooms[roomId].ownerId # userId
       THEN /\ req' = ReqIdle
            /\ last' = Event("delete403", "http", userId, roomId)
       ELSE /\ SetReq("dissolveMembers", "delete", userId, RoomRow(roomId))
            /\ last' = Event("delete", "http", userId, roomId)
    /\ sent' = {}
    /\ UNCHANGED <<clients, probes, conn, rooms, roomMember, sw, now, maxFailed>>

\* the owner's leave, and delete: await findMany(members), then the notification loop
HttpDissolveMembers ==
    LET room == req.room
        members == MembersOf(roomMember, room.id)
    IN  /\ ~Locked
        /\ req.pc = "dissolveMembers"
        /\ \E F \in SUBSET Throwers(room.id, members) :
             sent' = NotifyFrames(room.id, members, "", F)
        /\ req' = [req EXCEPT !.pc = "dissolveDelete"]
        /\ last' = Event("dissolveMembers", "http", req.userId, room.id)
        /\ UNCHANGED <<clients, probes, conn, rooms, roomMember, sw, now, maxFailed>>

\* the owner's leave, and delete: await prisma.room.delete(...)
HttpDissolveDelete ==
    LET room == req.room
    IN  /\ ~Locked
        /\ req.pc = "dissolveDelete"
        /\ IF room.id \in DOMAIN rooms
           THEN /\ rooms' = Del(rooms, room.id)
                /\ roomMember' = CascadeMembers(roomMember, room.id)
                /\ last' = Event("dissolveDelete", "http", req.userId, room.id)
           ELSE /\ UNCHANGED <<rooms, roomMember>>
                /\ last' = Event("error500", "http", req.userId, room.id)
        /\ req' = ReqIdle
        /\ sent' = {}
        /\ UNCHANGED <<clients, probes, conn, sw, now, maxFailed>>

\* a non-owner's leave: await prisma.roomMember.deleteMany(...)
HttpLeaveMember ==
    LET room == req.room
    IN  /\ ~Locked
        /\ req.pc = "leaveMember"
        /\ roomMember' = RoomMemberDelete(roomMember, room.id, req.userId)
        /\ req' = ReqIdle
        /\ sent' = {}
        /\ last' = Event("leaveMember", "http", req.userId, room.id)
        /\ UNCHANGED <<clients, probes, conn, rooms, sw, now, maxFailed>>

----------------------------------------------------------------------------
(* Specifications *)

Conns == {"c1", "c2"}
Sweepers == {"s1"}
Payloads == {"p1"}

\* the store when the process starts: a room with its owner and one more
\* member, a room with its owner only, or a room whose owner's membership
\* row is not written yet (POST /api/rooms awaits between the two creates)
StoreInit ==
    /\ rooms = [id \in {R1} |-> [ownerId |-> U1]]
    /\ roomMember \in {{<<R1, U1>>, <<R1, U2>>}, {<<R1, U1>>}, {}}

Init ==
    /\ clients = <<>>
    /\ probes = <<>>
    /\ conn = [c \in Conns |-> [status |-> "new", userId |-> Null, roomId |-> Null, joined |-> FALSE]]
    /\ StoreInit
    /\ sw = [s \in Sweepers |-> SweeperIdle]
    /\ req = ReqIdle
    /\ now = 0
    /\ maxFailed = MAX_FAILED_HEARTBEATS
    /\ sent = {}
    /\ last = Event("init", "", Null, Null)

Connection == \E c \in Conns : OnConnection(c)
Down == \E c \in Conns : TransportDown(c)
Close == \E c \in Conns : OnClose(c)
Join == \E c \in Conns, userId \in {U1, U2, Null}, roomId \in {R1, Null} : OnJoin(c, userId, roomId)
Heartbeat == \E c \in Conns : OnHeartbeat(c)
DrawEvent == \E c \in Conns, data \in Payloads : OnDrawEvent(c, data)
OtherFrame == \E c \in Conns : OnOtherFrame(c)
Sweeper == \E s \in Sweepers : Sweep(s)
Leave == \E userId \in {U1, U2} : HttpLeave(userId, R1)
Delete == \E userId \in {U1, U2} : HttpDelete(userId, R1)

JoinValid == \E c \in Conns, userId \in {U1, U2} : OnJoin(c, userId, R1)

\* the WebSocket handlers and the sweeper
Next ==
    \/ Connection
    \/ Close
    \/ Join
    \/ Heartbeat
    \/ DrawEvent
    \/ OtherFrame
    \/ Sweeper

Spec == Init /\ [][Next]_vars

\* the sweeper, the room routes, and connections that join with both fields
NextHttp ==
    \/ Connection
    \/ Close
    \/ JoinValid
    \/ Heartbeat
    \/ Sweeper
    \/ Leave
    \/ Delete
    \/ HttpDissolveMembers
    \/ HttpDissolveDelete
    \/ HttpLeaveMember

SpecHttp == Init /\ [][NextHttp]_vars

\* the sweeper and joined connections, with time passing
NextClock ==
    \/ Connection
    \/ Close
    \/ JoinValid
    \/ Heartbeat
    \/ Sweeper
    \/ AdvanceClock

SpecClock == Init /\ [][NextClock]_vars

\* the WebSocket handlers alone, with three participants and two rooms
InitBroadcast == Init /\ roomMember = {<<R1, U1>>, <<R1, U2>>}

JoinBroadcast ==
    \E c \in Conns, userId \in {U1, U2, U3}, roomId \in {R1, R2} : OnJoin(c, userId, roomId)

NextBroadcast ==
    \/ Connection
    \/ Down
    \/ Close
    \/ JoinBroadcast
    \/ DrawEvent

SpecBroadcast == InitBroadcast /\ [][NextBroadcast]_vars

\* the sweeper over two rooms: room r with its owner and one more member,
\* room s with its owner, or with no membership row written yet
StoreRooms ==
    /\ rooms = [id \in {R1, R2} |-> [ownerId |-> IF id = R1 THEN U1 ELSE U2]]
    /\ roomMember \in {{<<R1, U1>>, <<R1, U2>>, <<R2, U2>>}, {<<R1, U1>>, <<R1, U2>>}}

InitRooms ==
    /\ clients = <<>>
    /\ probes = <<>>
    /\ conn = [c \in Conns |-> [status |-> "new", userId |-> Null, roomId |-> Null, joined |-> FALSE]]
    /\ StoreRooms
    /\ sw = [s \in Sweepers |-> SweeperIdle]
    /\ req = ReqIdle
    /\ now = 0
    /\ maxFailed = MAX_FAILED_HEARTBEATS
    /\ sent = {}
    /\ last = Event("init", "", Null, Null)

\* each participant joins the rooms it is a member of
JoinRooms ==
    \E c \in Conns, m \in {<<R1, U1>>, <<R1, U2>>, <<R2, U2>>} : OnJoin(c, m[2], m[1])

NextRooms ==
    \/ Connection
    \/ JoinRooms
    \/ Heartbeat
    \/ Sweeper

SpecRooms == InitRooms /\ [][NextRooms]_vars

\* setInterval calls the callback every period whether or not an earlier
\* call has settled: two callbacks, one room with its owner and a member
Ticks == {"s1", "s2"}

InitOverlap ==
    /\ clients = <<>>
    /\ probes = <<>>
    /\ conn = [c \in Conns |-> [status |-> "new", userId |-> Null, roomId |-> Null, joined |-> FALSE]]
    /\ rooms = [id \in {R1} |-> [ownerId |-> U1]]
    /\ roomMember = {<<R1, U1>>, <<R1, U2>>}
    /\ sw = [s \in Ticks |-> SweeperIdle]
    /\ req = ReqIdle
    /\ now = 0
    /\ maxFailed = MAX_FAILED_HEARTBEATS
    /\ sent = {}
    /\ last = Event("init", "", Null, Null)

SweeperOverlap == \E s \in Ticks : Sweep(s)

NextOverlap ==
    \/ Connection
    \/ JoinValid
    \/ Heartbeat
    \/ SweeperOverlap

SpecOverlap == InitOverlap /\ [][NextOverlap]_vars

\* the join branch takes data.userId and data.roomId as sent: identifiers
\* that contain the separator of the key
U4 == <<"a", "_", "b">>
R3 == <<"r", "_", "a">>

JoinKeys ==
    \E c \in Conns, m \in {<<R1, U1>>, <<R1, U4>>, <<R3, U2>>} : OnJoin(c, m[2], m[1])

\* the WebSocket handlers with identifiers taken from the frames
NextKeys ==
    \/ Connection
    \/ Close
    \/ JoinKeys
    \/ Heartbeat

SpecKeys == Init /\ [][NextKeys]_vars

\* the process started with any maximum from 1 up, and participants that
\* answer every probe: a cycle starts only when every probed entry has been
\* acknowledged since
InitPrompt ==
    /\ clients = <<>>
    /\ probes = <<>>
    /\ conn = [c \in Conns |-> [status |-> "new", userId |-> Null, roomId |-> Null, joined |-> FALSE]]
    /\ rooms = [id \in {R1} |-> [ownerId |-> U1]]
    /\ roomMember \in {{<<R1, U1>>, <<R1, U2>>}, {}}
    /\ sw = [s \in Sweepers |-> SweeperIdle]
    /\ req = ReqIdle
    /\ now = 0
    /\ maxFailed \in 1..MAX_FAILED_HEARTBEATS
    /\ sent = {}
    /\ last = Event("init", "", Null, Null)

\* a cycle that starts when every registered entry has answered its probes
SweepListRoomsPrompt(s) ==
    /\ \A k \in DOMAIN clients : clients[k].failedHeartbeats = 0
    /\ SweepListRooms(s)

SweeperPrompt ==
    \E s \in Sweepers :
        \/ SweepListRoomsPrompt(s)
        \/ SweepFindMembers(s)
        \/ SweepFindRoom(s)
        \/ SweepMember(s)
        \/ SweepAbsentOthers(s)
        \/ SweepAbsentDelete(s)
        \/ SweepAbsentExisting(s)
        \/ SweepAbsentMember(s)
        \/ SweepTimeoutOthers(s)
        \/ SweepTimeoutDelete(s)
        \/ SweepTimeoutMember(s)
        \/ SweepCount(s)
        \/ SweepDeleteEmpty(s)

NextPrompt ==
    \/ Connection
    \/ JoinValid
    \/ Heartbeat
    \/ SweeperPrompt

SpecPrompt == InitPrompt /\ [][NextPrompt]_vars

\* the timer keeps firing and the store answers every call: one room with
\* its owner and a member (or no membership row written yet), transports
\* that stay open, a participant joins
\* once per registration and only the owner's transport sends heartbeats
InitLive ==
    /\ clients = <<>>
    /\ probes = <<>>
    /\ conn = [c \in Conns |-> [status |-> "new", userId |-> Null, roomId |-> Null, joined |-> FALSE]]
    /\ rooms = [id \in {R1} |-> [ownerId |-> U1]]
    /\ roomMember \in {{<<R1, U1>>, <<R1, U2>>}, {}}
    /\ sw = [s \in Sweepers |-> SweeperIdle]
    /\ req = ReqIdle
    /\ now = 0
    /\ maxFailed = MAX_FAILED_HEARTBEATS
    /\ sent = {}
    /\ last = Event("init", "", Null, Null)

JoinLive ==
    \E c \in Conns, userId \in {U1, U2} :
        /\ ~conn[c].joined
        /\ ClientId(R1, userId) \notin DOMAIN clients
        /\ OnJoin(c, userId, R1)

HeartbeatOwner == \E c \in Conns : conn[c].userId = U1 /\ OnHeartbeat(c)

NextLive ==
    \/ Connection
    \/ JoinLive
    \/ HeartbeatOwner
    \/ Sweeper

SpecLive == InitLive /\ [][NextLive]_vars /\ WF_vars(Sweeper)

----------------------------------------------------------------------------
(* Properties *)

EntriesOf(roomId, userId) ==
    {k \in DOMAIN clients : clients[k].roomId = roomId /\ clients[k].userId = userId}

\* C1: right after a join frame with non-empty userId and roomId is handled,
\* the registry holds exactly one entry for that (room, participant), the
\* entry's transport is the transport the join arrived on, and its failure
\* counter is 0, whatever entry the key had before.
C1_JoinLastWriterWins ==
    (last.op = "join" /\ Truthy(last.userId) /\ Truthy(last.roomId)) =>
        LET k == ClientId(last.roomId, last.userId)
        IN  /\ EntriesOf(last.roomId, last.userId) = {k}
            /\ clients[k].ws = last.c
            /\ clients[k].failedHeartbeats = 0

\* a join that replaced an entry with a counter above 0, while another open
\* transport is still bound to the same key
C1_Witness ==
    /\ last.op = "join" /\ last.n > 0
    /\ \E c \in DOMAIN conn :
         /\ c # last.c
         /\ conn[c].status = "open"
         /\ conn[c].userId = last.userId /\ conn[c].roomId = last.roomId
         /\ conn[c].joined
    /\ clients[ClientId(last.roomId, last.userId)].ws = last.c


\* C2: when a connection bound to (room r, participant u) handles a
\* draw_event, a send is made to every registry entry whose room is r and
\* whose participant is not u, on that entry's transport, and to nothing else.
C2_DrawEventFanOut ==
    (last.op = "draw_event" /\ Truthy(last.userId) /\ Truthy(last.roomId)) =>
        /\ {f.key : f \in sent} =
             {k \in DOMAIN clients :
                clients[k].roomId = last.roomId /\ clients[k].userId # last.userId}
        /\ \A f \in sent : f.type = "draw_event" /\ f.to = clients[f.key].ws

\* C3: when the sweeper examines the owner of a listed room and finds no
\* registry entry, it goes on, within the same cycle, to send exactly one
\* room_deleted with reason owner_disconnected to every other member that
\* has a registry entry, and the cycle does not end before the room is
\* absent from the store.
C3Step(s) ==
    LET room == sw[s].room
        owner == room.ownerId
    IN  /\ (/\ sw[s].pc = "memberLoop"
            /\ owner \in sw[s].todo /\ owner \notin sw'[s].todo
            /\ ClientId(room.id, owner) \notin DOMAIN clients)
           => (sw'[s].pc = "absentOthers" /\ sw'[s].member = owner)
        /\ (sw[s].pc = "absentOthers" /\ sw'[s] # sw[s])
           => /\ sw'[s].pc = "absentDelete"
              /\ \A u \in MembersOf(roomMember, room.id) \ {owner} :
                   LET k == ClientId(room.id, u)
                   IN  k \in DOMAIN clients =>
                         /\ Cardinality({f \in sent' : f.key = k}) = 1
                         /\ \A f \in {g \in sent' : g.key = k} :
                              /\ f.type = "room_deleted"
                              /\ f.reason = "owner_disconnected"
                              /\ f.roomId = room.id
                              /\ f.to = clients[k].ws
        /\ (sw[s].pc = "absentDelete" /\ sw'[s] # sw[s])
           => (sw'[s].pc = "idle" /\ room.id \notin DOMAIN rooms')

C3_OwnerAbsentDissolves == [][\A s \in DOMAIN sw : C3Step(s)]_vars

\* the room was deleted for its absent owner while another participant of
\* the room is connected
C3_Witness ==
    /\ last.op = "absentDelete"
    /\ last.roomId \notin DOMAIN rooms
    /\ \E k \in DOMAIN clients :
         /\ clients[k].roomId = last.roomId
         /\ clients[k].userId # last.userId
         /\ conn[clients[k].ws].status = "open"

\* C4: right after a room is dissolved (by the sweeper for an absent or a
\* timed-out owner, or by the owner's leave or delete request), the room and
\* its memberships are absent from the store and the registry has no entry
\* for that room.
C4_DissolutionClearsRegistry ==
    (last.op \in {"absentDelete", "timeoutDelete", "dissolveDelete"}) =>
        /\ last.roomId \notin DOMAIN rooms
        /\ MembersOf(roomMember, last.roomId) = {}
        /\ \A k \in DOMAIN clients : clients[k].roomId # last.roomId

\* C5: the owner's entry reaches the maximum only after MAX_FAILED_HEARTBEATS
\* probes without a heartbeat; the sweep that reads the maximum sends each
\* other connected member exactly one room_deleted with reason owner_timeout,
\* deletes the room, and removes the registry entry of every other member
\* whose transport is open and that has answered every probe sent to it.
C5Step(s) ==
    LET room == sw[s].room
        owner == room.ownerId
    IN  /\ (sw'[s].pc = "timeoutOthers" /\ sw[s].pc # "timeoutOthers")
           => probes'[ClientId(room.id, owner)] >= MAX_FAILED_HEARTBEATS
        /\ (sw[s].pc = "timeoutOthers" /\ sw'[s] # sw[s])
           => \A u \in MembersOf(roomMember, room.id) \ {owner} :
                LET k == ClientId(room.id, u)
                IN  k \in DOMAIN clients =>
                      /\ Cardinality({f \in sent' : f.key = k}) = 1
                      /\ \A f \in {g \in sent' : g.key = k} :
                           f.type = "room_deleted" /\ f.reason = "owner_timeout"
        /\ (sw[s].pc = "timeoutDelete" /\ sw'[s] # sw[s] /\ room.id \in DOMAIN rooms)
           => /\ room.id \notin DOMAIN rooms'
              /\ \A u \in MembersOf(roomMember, room.id) \ {owner} :
                   LET k == ClientId(room.id, u)
                   IN  (/\ k \in DOMAIN clients
                        /\ conn[clients[k].ws].status = "open"
                        /\ probes[k] = 0)
                       => k \notin DOMAIN clients'

C5_OwnerTimeoutScenario == [][\A s \in DOMAIN sw : C5Step(s)]_vars


\* C6: when the sweeper finds a member that is not the owner without a
\* registry entry, the steps of that escalation (the lookup of the
\* membership and its deletion) delete that one membership and change
\* nothing else: the room records, the other memberships and the registry
\* stay as they were.
C6Step(s) ==
    LET room == sw[s].room
        m == sw[s].member
    IN  /\ (sw[s].pc = "memberLoop" /\ sw'[s].pc = "absentExisting")
           => (clients' = clients /\ rooms' = rooms /\ roomMember' = roomMember)
        /\ (sw[s].pc = "absentExisting" /\ sw'[s] # sw[s])
           => (clients' = clients /\ rooms' = rooms /\ roomMember' = roomMember)
        /\ (sw[s].pc = "absentMember" /\ sw'[s] # sw[s])
           => /\ clients' = clients
              /\ rooms' = rooms
              /\ roomMember' = roomMember \ {<<room.id, m>>}

C6_AbsentMemberOnly == [][\A s \in DOMAIN sw : C6Step(s)]_vars

\* the membership of an absent member was deleted while the owner of the
\* room is a member with a registry entry below the maximum
C6_Witness ==
    /\ last.op = "absentMember"
    /\ last.roomId \in DOMAIN rooms
    /\ <<last.roomId, last.userId>> \notin roomMember
    /\ LET owner == rooms[last.roomId].ownerId
           k == ClientId(last.roomId, owner)
       IN  /\ <<last.roomId, owner>> \in roomMember
           /\ k \in DOMAIN clients
           /\ clients[k].failedHeartbeats < MAX_FAILED_HEARTBEATS

\* C7: a heartbeat frame on a connection whose key has a registry entry with
\* a failure counter below the maximum sets that counter to 0 and the
\* entry's last-ack time to the current time, changes no other entry, and
\* sends heartbeat_ack, and nothing else, on the same transport.
C7Step(c) ==
    LET userId == conn[c].userId
        roomId == conn[c].roomId
        k == ClientId(roomId, userId)
    IN  (/\ last'.op = "heartbeat" /\ last'.c = c
         /\ conn[c].status = "open"
         /\ Truthy(userId) /\ Truthy(roomId)
         /\ k \in DOMAIN clients
         /\ clients[k].failedHeartbeats < MAX_FAILED_HEARTBEATS)
        => /\ DOMAIN clients' = DOMAIN clients
           /\ clients'[k].failedHeartbeats = 0
           /\ clients'[k].lastHeartbeat = now
           /\ clients'[k].ws = clients[k].ws
           /\ \A x \in DOMAIN clients \ {k} : clients'[x] = clients[x]
           /\ Cardinality(sent') = 1
           /\ \A f \in sent' : f.to = c /\ f.type = "heartbeat_ack" /\ f.ok

C7_HeartbeatResets == [][\A c \in DOMAIN conn : C7Step(c)]_vars

\* a heartbeat reset a counter that was above 0, on an entry made at an
\* earlier time, while another entry keeps a counter above 0
C7_Witness ==
    /\ last.op = "heartbeat" /\ last.n > 0 /\ last.n < MAX_FAILED_HEARTBEATS
    /\ now > 0
    /\ LET k == ClientId(last.roomId, last.userId)
       IN  /\ clients[k].failedHeartbeats = 0
           /\ clients[k].lastHeartbeat = now
           /\ \E x \in DOMAIN clients \ {k} :
                clients[x].failedHeartbeats > 0 /\ clients[x].lastHeartbeat < now

\* the pcs of the threshold escalation
TimeoutPcs == {"timeoutOthers", "timeoutDelete", "timeoutMember"}

\* C8 as stated: whenever the threshold escalation removes a participant's
\* registry entry, that entry has been sent at least MAX_FAILED_HEARTBEATS
\* probes since the last heartbeat or join accepted for it.
C8Removal(s) ==
    LET k == ClientId(sw[s].room.id, sw[s].member)
    IN  (/\ sw[s].pc \in {"timeoutDelete", "timeoutMember"}
         /\ sw'[s] # sw[s]
         /\ k \in DOMAIN clients /\ k \notin DOMAIN clients')
        => probes[k] >= MAX_FAILED_HEARTBEATS

C8Entry(s) ==
    LET k == ClientId(sw'[s].room.id, sw'[s].member)
    IN  /\ (sw'[s].pc \in TimeoutPcs /\ sw[s].pc \notin TimeoutPcs)
           => /\ k \in DOMAIN clients'
              /\ clients'[k].failedHeartbeats >= MAX_FAILED_HEARTBEATS
              /\ probes'[k] >= MAX_FAILED_HEARTBEATS
        /\ (sw[s].pc \in TimeoutPcs /\ sw'[s].pc \in TimeoutPcs)
           => (sw'[s].member = sw[s].member /\ sw'[s].room = sw[s].room)

C9_ClosedTransportNotRegistered ==
    \A c \in DOMAIN conn :
        (conn[c].status = "closed" /\ conn[c].joined)
        => \A k \in DOMAIN clients : clients[k].ws # c

\* C10: a heartbeat or draw_event frame on a connection on which no join was
\* ever accepted changes no registry entry and sends nothing.
C10Step(c) ==
    (/\ last'.op \in {"heartbeat", "draw_event"} /\ last'.c = c
     /\ ~conn[c].joined)
    => (clients' = clients /\ sent' = {})

C10_UnjoinedFramesIgnored == [][\A c \in DOMAIN conn : C10Step(c)]_vars

\* C11: when a send of a draw_event broadcast throws, every other registry
\* entry of the sender's room with another participant is still sent the
\* payload, and the sender's transport stays open and bound as it was.
C11_BroadcastSurvivesFailure ==
    (last.op = "draw_event" /\ \E f \in sent : ~f.ok) =>
        /\ \A k \in DrawTargets(clients, last.userId, last.roomId) :
             \E f \in sent : f.key = k /\ f.data \in Payloads
        /\ conn[last.c].status = "open"
        /\ conn[last.c].userId = last.userId /\ conn[last.c].roomId = last.roomId

\* C12: when the existence check of a listed room finds the room gone from
\* the store, every participant that was a member of the room when the cycle
\* listed it and has a registry entry is sent room_deleted and loses the
\* entry, and the sweeper goes on to the next room or ends the cycle.
C12Step(s) ==
    LET room == sw[s].room
    IN  (sw[s].pc = "findRoom" /\ sw'[s] # sw[s] /\ room.id \notin DOMAIN rooms)
        => /\ \A u \in MembersOf(sw[s].listed, room.id) :
                LET k == ClientId(room.id, u)
                IN  k \in DOMAIN clients =>
                      /\ \E f \in sent' : /\ f.key = k /\ f.type = "room_deleted"
                                           /\ f.to = clients[k].ws
                      /\ k \notin DOMAIN clients'
           /\ sw'[s].pc \in {"idle", "findMembers"}
           /\ sw'[s].room # room

C12_VanishedRoomNotifiesMembers == [][\A s \in DOMAIN sw : C12Step(s)]_vars

\* C13: when a cycle dissolves a room for its absent or timed-out owner and
\* the store operation succeeds, the cycle goes on with the rooms of the
\* listing it has not processed yet.
C13Step(s) ==
    (/\ sw[s].pc \in {"absentDelete", "timeoutDelete"}
     /\ sw'[s] # sw[s]
     /\ sw[s].room.id \in DOMAIN rooms
     /\ sw[s].todoRooms # {})
    => /\ sw'[s].pc = "findMembers"
       /\ sw'[s].room \in sw[s].todoRooms

C13_DissolutionEndsOneRoomOnly == [][\A s \in DOMAIN sw : C13Step(s)]_vars

\* C14: in each dissolution path the notification step sends room_deleted
\* to every member it notifies that has a registry entry, whether or not
\* other sends of the step throw, while the room is still in the store and
\* without touching the store; the step after it in that path is the
\* deletion of the room, which sends nothing.
C14Notified(roomId, us) ==
    \A u \in us :
        LET k == ClientId(roomId, u)
        IN  k \in DOMAIN clients =>
              \E f \in sent' : /\ f.key = k /\ f.type = "room_deleted"
                                /\ f.to = clients[k].ws

C14SweepStep(s) ==
    LET room == sw[s].room
    IN  /\ (sw[s].pc \in {"absentOthers", "timeoutOthers"} /\ sw'[s] # sw[s])
           => /\ C14Notified(room.id, MembersOf(roomMember, room.id) \ {sw[s].member})
              /\ sent' # {} => room.id \in DOMAIN rooms'
              /\ rooms' = rooms /\ roomMember' = roomMember
              /\ sw'[s].pc = IF sw[s].pc = "absentOthers" THEN "absentDelete"
                             ELSE "timeoutDelete"
        /\ (sw[s].pc \in {"absentDelete", "timeoutDelete"} /\ sw'[s] # sw[s])
           => (sent' = {} /\ room.id \notin DOMAIN rooms')

C14HttpStep ==
    LET room == req.room
    IN  /\ (req.pc = "dissolveMembers" /\ req' # req)
           => /\ C14Notified(room.id, MembersOf(roomMember, room.id))
              /\ sent' # {} => room.id \in DOMAIN rooms'
              /\ rooms' = rooms /\ roomMember' = roomMember
              /\ req'.pc = "dissolveDelete"
        /\ (req.pc = "dissolveDelete" /\ req' # req)
           => (sent' = {} /\ room.id \notin DOMAIN rooms')

C14_NotifyBeforeDelete == [][C14HttpStep /\ \A s \in DOMAIN sw : C14SweepStep(s)]_vars

\* a notification step in which one send threw and another one was made
C14_Witness ==
    /\ last.op \in {"absentOthers", "timeoutOthers", "dissolveMembers"}
    /\ last.roomId \in DOMAIN rooms
    /\ \E f, g \in sent : ~f.ok /\ g.ok /\ f.type = "room_deleted" /\ g.type = "room_deleted"

\* C15: the step that evicts a member that is not the owner (the sweeper's
\* deletion for absence or for the threshold, or the member's own leave
\* request) removes that one membership, leaves the room records and the
\* other memberships as they were, and leaves no registry entry for the
\* member's key.
C15Evicted(roomId, m) ==
    /\ rooms' = rooms
    /\ roomMember' = roomMember \ {<<roomId, m>>}
    /\ ClientId(roomId, m) \notin DOMAIN clients'

C15Step ==
    /\ \A s \in DOMAIN sw :
         (/\ sw[s].pc \in {"absentMember", "timeoutMember"}
          /\ sw'[s] # sw[s]
          /\ <<sw[s].room.id, sw[s].member>> \in roomMember)
         => C15Evicted(sw[s].room.id, sw[s].member)
    /\ (/\ req.pc = "leaveMember"
        /\ req' # req
        /\ <<req.room.id, req.userId>> \in roomMember)
       => C15Evicted(req.room.id, req.userId)

C15_EvictionRemovesMemberAndEntry == [][C15Step]_vars

\* C16: a frame that cannot be parsed, or whose type is not join, heartbeat
\* or draw_event, changes neither the registry nor the transport's state and
\* binding, and sends nothing; the transport is open afterwards.
C16Step(c) ==
    (last'.op = "other" /\ last'.c = c)
    => /\ clients' = clients
       /\ conn' = conn
       /\ conn'[c].status = "open"
       /\ sent' = {}

C16_MalformedFrameIgnored == [][\A c \in DOMAIN conn : C16Step(c)]_vars

\* such a frame was handled on a joined transport that holds a registry
\* entry with a counter above 0
C16_Witness ==
    /\ last.op = "other"
    /\ conn[last.c].joined
    /\ Truthy(last.userId) /\ Truthy(last.roomId)
    /\ ClientId(last.roomId, last.userId) \in DOMAIN clients
    /\ clients[ClientId(last.roomId, last.userId)].ws = last.c
    /\ clients[ClientId(last.roomId, last.userId)].failedHeartbeats > 0

\* C17: a heartbeat frame on a joined transport whose key has no registry
\* entry sends nothing and leaves the registry as it was.
C17Step(c) ==
    (/\ last'.op = "heartbeat" /\ last'.c = c
     /\ conn[c].joined
     /\ Truthy(conn[c].userId) /\ Truthy(conn[c].roomId)
     /\ ClientId(conn[c].roomId, conn[c].userId) \notin DOMAIN clients)
    => (sent' = {} /\ clients' = clients)

C17_HeartbeatWithoutEntryDropped == [][\A c \in DOMAIN conn : C17Step(c)]_vars

\* a heartbeat was handled on an open joined transport whose entry the
\* sweeper had evicted together with the membership
C17_Witness ==
    /\ last.op = "heartbeat"
    /\ conn[last.c].joined /\ conn[last.c].status = "open"
    /\ Truthy(last.userId) /\ Truthy(last.roomId)
    /\ ClientId(last.roomId, last.userId) \notin DOMAIN clients
    /\ last.roomId \in DOMAIN rooms
    /\ <<last.roomId, last.userId>> \notin roomMember
    /\ \A c \in DOMAIN conn \ {last.c} :
         ~(conn[c].userId = last.userId /\ conn[c].roomId = last.roomId)
    /\ sent = {}

\* C18: when the member loop of a room has ended and the store counts no
\* membership of the room, the sweeper's next step deletes the room; and
\* when a cycle ends after its last room without a store failure, every
\* room whose member loop it ran to the end is gone from the store or has
\* a membership.
C18Step(s) ==
    LET room == sw[s].room
    IN  /\ (sw[s].pc = "count" /\ sw'[s] # sw[s])
           => IF MembersOf(roomMember, room.id) = {}
              THEN sw'[s].pc = "deleteEmpty" /\ sw'[s].room = room
              ELSE sw'[s].pc \in {"idle", "findMembers"}
        /\ (sw[s].pc = "deleteEmpty" /\ sw'[s] # sw[s])
           => room.id \notin DOMAIN rooms'
        /\ (/\ sw[s].pc \in {"count", "deleteEmpty"}
            /\ sw'[s].pc = "idle"
            /\ last'.op \in {"count", "deleteEmpty"})
           => \A id \in sw[s].done \cup {room.id} :
                 id \in DOMAIN rooms' => MembersOf(roomMember', id) # {}

C18_EmptyRoomDeleted == [][\A s \in DOMAIN sw : C18Step(s)]_vars

\* a cycle ended by deleting a room without members, after it had run the
\* member loop of another room that is still in the store
C18_Witness ==
    /\ last.op = "deleteEmpty"
    /\ last.roomId \notin DOMAIN rooms
    /\ \A s \in DOMAIN sw : sw[s].pc = "idle"
    /\ \E id \in DOMAIN rooms : MembersOf(roomMember, id) # {}

\* C19: a join frame with both fields non-empty installs the entry of its
\* key and sends one joined reply that echoes roomId and userId; a join
\* frame with a field missing sends nothing and changes neither the
\* registry nor the (room, participant) the transport is bound to.
C19Step(c) ==
    (last'.op = "join" /\ last'.c = c)
    => IF Truthy(last'.userId) /\ Truthy(last'.roomId)
       THEN /\ ClientId(last'.roomId, last'.userId) \in DOMAIN clients'
            /\ clients'[ClientId(last'.roomId, last'.userId)].ws = c
            /\ sent' = {Frame(c, Null, "joined", last'.roomId, last'.userId, "", "", TRUE)}
       ELSE /\ clients' = clients
            /\ sent' = {}
            /\ conn'[c].userId = conn[c].userId
            /\ conn'[c].roomId = conn[c].roomId

C19_JoinNeedsBothFields == [][\A c \in DOMAIN conn : C19Step(c)]_vars

\* C20: the close of a transport leaves in place every registry entry whose
\* transport is another one; in particular the entry a later join on
\* another transport installed under the same key.
C20Step(c) ==
    (last'.op = "close" /\ last'.c = c)
    => \A k \in DOMAIN clients :
          clients[k].ws # c => (k \in DOMAIN clients' /\ clients'[k] = clients[k])

C20_CloseKeepsLaterJoin == [][\A c \in DOMAIN conn : C20Step(c)]_vars

\* C21: when the sweeper deletes a membership for absence, or deletes a room
\* for its absent owner, the participant concerned has no registry entry at
\* that moment.
C21Step(s) ==
    (/\ sw[s].pc \in {"absentDelete", "absentMember"}
     /\ sw'[s] # sw[s]
     /\ (rooms' # rooms \/ roomMember' # roomMember))
    => ClientId(sw[s].room.id, sw[s].member) \notin DOMAIN clients

C21_AbsenceRecheckedBeforeDelete == [][\A s \in DOMAIN sw : C21Step(s)]_vars

\* C26: at any time at most one call of the sweeper's callback is between
\* its listing of the rooms and its end.
C26_OneCycleAtATime ==
    Cardinality({s \in DOMAIN sw : sw[s].pc # "idle"}) <= 1

\* C22: in every reachable state the failure counter of every registry
\* entry is between 0 and the configured maximum.
C22_CounterWithinMaximum ==
    \A k \in DOMAIN clients :
        clients[k].failedHeartbeats >= 0 /\ clients[k].failedHeartbeats <= maxFailed

\* C23: once the sweeper has read a counter at the maximum, a heartbeat
\* handled while it awaits the store leaves the escalation pending, and the
\* sweeper's next steps delete the membership (member) or notify and delete
\* the room (owner), whatever the counter is by then.
C23Step(s) ==
    LET room == sw[s].room
        m == sw[s].member
    IN  /\ (sw[s].pc \in TimeoutPcs /\ last'.op = "heartbeat")
           => sw'[s] = sw[s]
        /\ (sw[s].pc = "timeoutOthers" /\ sw'[s] # sw[s])
           => (sw'[s].pc = "timeoutDelete" /\ sw'[s].member = m)
        /\ (sw[s].pc = "timeoutDelete" /\ sw'[s] # sw[s])
           => room.id \notin DOMAIN rooms'
        /\ (sw[s].pc = "timeoutMember" /\ sw'[s] # sw[s])
           => /\ <<room.id, m>> \notin roomMember'
              /\ <<room.id, m>> \in roomMember => ClientId(room.id, m) \notin DOMAIN clients'

C23_HeartbeatDoesNotCancel == [][\A s \in DOMAIN sw : C23Step(s)]_vars

\* a heartbeat has reset a counter that was at the maximum while the sweeper
\* awaits the store to evict that member
C23_Witness ==
    /\ last.op = "heartbeat" /\ last.n >= maxFailed
    /\ \E s \in DOMAIN sw :
         /\ sw[s].pc = "timeoutMember"
         /\ sw[s].member = last.userId /\ sw[s].room.id = last.roomId
         /\ <<sw[s].room.id, sw[s].member>> \in roomMember
         /\ clients[ClientId(last.roomId, last.userId)].failedHeartbeats = 0

\* C24: after a run of the sweeper in which a send to a registry entry's
\* transport threw (a heartbeat probe or a room_deleted notification), that
\* entry is no longer in the registry.
C24_FailedSendRemovesEntry ==
    (last.c \in DOMAIN sw) =>
        \A f \in sent :
            (~f.ok /\ f.type \in {"heartbeat", "room_deleted"}) => f.key \notin DOMAIN clients

\* C25: when the row the sweeper is about to delete (a membership or a room)
\* is already gone from the store, the sweeper removes the registry entry of
\* the participant concerned and goes on with the remaining members and
\* rooms of the cycle.
C25Step(s) ==
    LET room == sw[s].room
        m == sw[s].member
    IN  /\ (/\ sw[s].pc \in {"absentMember", "timeoutMember"}
            /\ sw'[s] # sw[s]
            /\ <<room.id, m>> \notin roomMember)
           => /\ ClientId(room.id, m) \notin DOMAIN clients'
              /\ sw'[s].pc \in {"memberLoop", "count", "timeoutOthers", "timeoutMember"}
              /\ sw'[s].room = room
        /\ (/\ sw[s].pc \in {"absentDelete", "timeoutDelete", "deleteEmpty"}
            /\ sw'[s] # sw[s]
            /\ room.id \notin DOMAIN rooms)
           => /\ \A k \in DOMAIN clients' : clients'[k].roomId # room.id
              /\ sw[s].todoRooms # {} => sw'[s].pc = "findMembers"

C25_MissingRowDoesNotAbort == [][\A s \in DOMAIN sw : C25Step(s)]_vars

\* C27: a join, heartbeat or close for the pair (r1, u1) leaves the registry
\* entry of every other pair (r2, u2) as it was: neither created, overwritten,
\* reset nor removed.
C27Pairs(cl) == {<<cl[k].roomId, cl[k].userId>> : k \in DOMAIN cl}

C27EntryOf(cl, p) == {cl[k] : k \in {j \in DOMAIN cl : <<cl[j].roomId, cl[j].userId>> = p}}

C27Step ==
    (last'.op \in {"join", "heartbeat", "close"} /\ clients' # clients)
        => \A p \in (C27Pairs(clients) \cup C27Pairs(clients')) \ {<<last'.roomId, last'.userId>>} :
               C27EntryOf(clients', p) = C27EntryOf(clients, p)

C27_DistinctPairsDistinctKeys == [][C27Step]_vars

\* C29: the failure counter of every registry entry equals the number of
\* probes the sweeper sent to its key since the last accepted heartbeat or
\* join on that key, the probes whose send threw included.
C29_CounterCountsProbes ==
    /\ DOMAIN probes = DOMAIN clients
    /\ \A k \in DOMAIN clients : clients[k].failedHeartbeats = probes[k]

\* a probe whose send threw has been counted on an entry
C29_Witness ==
    /\ last.op = "probe"
    /\ \E f \in sent :
         /\ f.type = "heartbeat" /\ ~f.ok
         /\ f.key \in DOMAIN clients
         /\ clients[f.key].failedHeartbeats = last.n + 1
         /\ clients[f.key].userId = last.userId
         /\ probes[f.key] >= 1

\* C30: whatever the maximum the process started with (1 or more), when
\* every registered participant answers each probe before the next cycle
\* begins, the sweeper never enters threshold escalation: no eviction by the
\* threshold rule and no dissolution with reason owner_timeout.
C30_PromptMemberNeverTimedOut == \A s \in DOMAIN sw : sw[s].pc \notin TimeoutPcs

\* C28: with the sweeper running fairly and no store failure, a non-owner
\* member that is registered and never sends a heartbeat is eventually
\* evicted, and the eviction (membership deleted, registry entry removed)
\* comes in the cycle of its M-th unanswered probe.
C28Silent == ClientId(R1, U2) \in DOMAIN clients /\ <<R1, U2>> \in roomMember

C28Gone == ClientId(R1, U2) \notin DOMAIN clients /\ <<R1, U2>> \notin roomMember

C28Step(s) ==
    LET k == ClientId(R1, U2)
    IN  /\ (sw[s].pc = "memberLoop" /\ k \in DOMAIN clients' /\ probes'[k] = maxFailed
            /\ k \in DOMAIN clients /\ probes[k] < maxFailed)
           => sw'[s].pc = "timeoutMember" /\ sw'[s].member = U2
        /\ (sw[s].pc = "timeoutMember" /\ sw[s].member = U2 /\ sw'[s] # sw[s])
           => /\ probes[k] = maxFailed
              /\ C28Gone'
              /\ rooms' = rooms

C28_SilentMemberEventuallyEvicted ==
    /\ C28Silent ~> C28Gone
    /\ [][\A s \in DOMAIN sw : C28Step(s)]_vars

\* C31: a draw_event handled on a transport is sent on to peers only when
\* the registry entry of that transport's (room, participant) key exists and
\* holds that very transport.
C31_RelayOnlyFromRegistered ==
    (last.op = "draw_event" /\ sent # {}) =>
        /\ ClientId(last.roomId, last.userId) \in DOMAIN clients
        /\ clients[ClientId(last.roomId, last.userId)].ws = last.c

\* C32: when a cycle of the sweeper ends without a store call having
\* thrown, every registry entry is for a (room, participant) pair that is a
\* membership of a room in the store.
C32Threw ==
    {"absentDeleteThrew", "absentMemberThrew", "deleteEmptyThrew",
     "timeoutDeleteThrew", "timeoutMemberThrew"}

C32Step(s) ==
    (sw[s].pc # "idle" /\ sw'[s].pc = "idle" /\ last'.op \notin C32Threw)
    => \A k \in DOMAIN clients' :
           /\ clients'[k].roomId \in DOMAIN rooms'
           /\ <<clients'[k].roomId, clients'[k].userId>> \in roomMember'

C32_RegistryMatchesStoreAfterCycle == [][\A s \in DOMAIN sw : C32Step(s)]_vars

====
